---- MODULE Spec2Model ----
(***************************************************************************)
(* simple-task-timer: the task timer state machine (src/src/task.rs), the  *)
(* command handlers of the binary (src/src/main.rs) and the time token     *)
(* parser (src/src/utils.rs, src/src/main.rs).                             *)
(*                                                                         *)
(* One invocation of the binary is load_tasks, one handler, save_tasks; it *)
(* is one action here.  A panic (expect/unwrap on a bad token) ends the    *)
(* process before save_tasks, so the stored maps stay as they were.        *)
(* Time is counted in ticks, TicksPerSec ticks to the second, so that      *)
(* Duration::as_secs truncates as it does in the code.                     *)
(***************************************************************************)
EXTENDS Integers, Sequences, FiniteSets, TLC

VARIABLES stores, now, last, acct, procs

vars == <<stores, now, last, acct, procs>>

(* ------------------------------ bounds --------------------------------- *)
MaxId == 2
MaxTasks == 2
MaxTotal == 60
TicksPerSec == 2
MaxTime == 6
\* responses read by one clear
MaxLines == 3
\* characters of a time token typed by the user
MaxLen == 4

Category == {"current", "archive"}
Names == {"a", "b"}
\* clock readings of the store specification: an instant, and one a minute
\* and a half-second later
Times == {0, 60 * TicksPerSec + 1}
\* clock readings of the single-task timer specification
TimerTimes == 0..MaxTime
\* the clock readings at which the store specification starts a task
StartTimes == {0}
\* time tokens handed to add / sub / set
GoodTokens == {<<"1", "m">>, <<"2", "m">>, <<"0", "h", "1", "m">>}
\* the tokens of the store specification: one that parses, one that does not
StoreTokens == {<<"1", "m">>, <<"x", "m">>}
BadTokens == {<<>>, <<"1">>, <<"x", "m">>, <<"h">>, <<"1", "h", "m">>}
Tokens == GoodTokens \cup BadTokens
\* the characters of the tokens the parsers are run on
Alphabet == {"0", "1", "2", "h", "m", "x", "+"}
\* the responses a user gives to the confirmation of clear
Lines == {<<"y">>, <<"Y">>, <<"N">>, <<"x">>, <<>>}

(* --------------------------- Option<SystemTime> ------------------------ *)
None == <<>>
Some(t) == <<t>>
IsSome(o) == o /= None
Unwrap(o) == o[1]

(* ------------------------ Rust string primitives ----------------------- *)
DigitChars == <<"0", "1", "2", "3", "4", "5", "6", "7", "8", "9">>
IsDigit(c) == \E i \in 1..10 : DigitChars[i] = c
DigitVal(c) == (CHOOSE i \in 1..10 : DigitChars[i] = c) - 1

\* str::contains(char)
Contains(s, c) == \E i \in 1..Len(s) : s[i] = c
\* str::find(char): byte index (from 0) of the first occurrence
Find(s, c) == (CHOOSE i \in 1..Len(s) : s[i] = c /\ \A j \in 1..(i - 1) : s[j] /= c) - 1
\* &s[a..b], indices from 0; a > b is a slice panic in Rust
Slice(s, a, b) == SubSeq(s, a + 1, b)

RECURSIVE DigitsValue(_)
DigitsValue(s) ==
    IF s = <<>> THEN 0
    ELSE DigitsValue(SubSeq(s, 1, Len(s) - 1)) * 10 + DigitVal(s[Len(s)])

\* str::parse::<u64>(): an optional leading '+', then one or more digits
ParseU64(s) ==
    LET body == IF s /= <<>> /\ s[1] = "+" THEN Tail(s) ELSE s
    IN IF body /= <<>> /\ \A i \in 1..Len(body) : IsDigit(body[i])
       THEN [ok |-> TRUE, val |-> DigitsValue(body)]
       ELSE [ok |-> FALSE, val |-> 0]

(* ----------------------------- time tokens ----------------------------- *)
\* outcome kinds of the parsers: "ok" (a value), "none" (None / Err is
\* returned), "panic" (an expect inside the parser fails)
ParseOk(v) == [kind |-> "ok", val |-> v]
ParseNone == [kind |-> "none", val |-> 0]
ParsePanic == [kind |-> "panic", val |-> 0]

\* parse_time_to_seconds that adds the minutes as seconds
parse_time_to_seconds_MinutesUnscaled(input) ==
    LET has_hours == Contains(input, "h")
        has_minutes == Contains(input, "m")
        hoursP == IF has_hours
                  THEN ParseU64(Slice(input, 0, Find(input, "h")))
                  ELSE [ok |-> TRUE, val |-> 0]
        h_index == IF has_hours THEN Find(input, "h") + 1 ELSE 0
        m_index == IF has_minutes THEN Find(input, "m") ELSE 0
        minutesP == IF has_minutes
                    THEN IF h_index > m_index
                         THEN [ok |-> FALSE, val |-> 0]
                         ELSE ParseU64(Slice(input, h_index, m_index))
                    ELSE [ok |-> TRUE, val |-> 0]
    IN IF ~has_hours /\ ~has_minutes THEN ParseNone
       ELSE IF ~hoursP.ok THEN ParsePanic
       ELSE IF ~minutesP.ok THEN ParsePanic
       ELSE ParseOk(hoursP.val * 3600 + minutesP.val)

\* main.rs: fn parse_time_to_seconds(input) -> Option<u64>
parse_time_to_seconds(input) ==
    LET has_hours == Contains(input, "h")
        has_minutes == Contains(input, "m")
        hoursP == IF has_hours
                  THEN ParseU64(Slice(input, 0, Find(input, "h")))
                  ELSE [ok |-> TRUE, val |-> 0]
        h_index == IF has_hours THEN Find(input, "h") + 1 ELSE 0
        m_index == IF has_minutes THEN Find(input, "m") ELSE 0
        minutesP == IF has_minutes
                    THEN IF h_index > m_index
                         THEN [ok |-> FALSE, val |-> 0]
                         ELSE ParseU64(Slice(input, h_index, m_index))
                    ELSE [ok |-> TRUE, val |-> 0]
    IN IF ~has_hours /\ ~has_minutes THEN ParseNone
       ELSE IF ~hoursP.ok THEN ParsePanic
       ELSE IF ~minutesP.ok THEN ParsePanic
       ELSE ParseOk(hoursP.val * 3600 + minutesP.val * 60)

\* utils.rs: fn parse_time_string_to_seconds(input) -> Result<u64, String>
parse_time_string_to_seconds(input) ==
    LET has_hours == Contains(input, "h")
        has_minutes == Contains(input, "m")
        hoursP == IF has_hours
                  THEN ParseU64(Slice(input, 0, Find(input, "h")))
                  ELSE [ok |-> TRUE, val |-> 0]
        h_index == IF has_hours THEN Find(input, "h") + 1 ELSE 0
        m_index == IF has_minutes THEN Find(input, "m") ELSE 0
        minutesP == IF has_minutes
                    THEN IF h_index > m_index
                         THEN [ok |-> FALSE, val |-> 0]
                         ELSE ParseU64(Slice(input, h_index, m_index))
                    ELSE [ok |-> TRUE, val |-> 0]
    IN IF ~has_hours /\ ~has_minutes THEN ParseNone
       ELSE IF ~hoursP.ok THEN ParsePanic
       ELSE IF ~minutesP.ok THEN ParsePanic
       ELSE ParseOk(hoursP.val * 3600 + minutesP.val * 60)

(* ------------------------------- clock --------------------------------- *)
\* SystemTime::elapsed().unwrap_or_default().as_secs() read at clock value n:
\* whole seconds since t, and 0 when the clock is behind t
Elapsed(t, n) == IF n < t THEN 0 ELSE (n - t) \div TicksPerSec

(* --------------------------- Task (task.rs) ---------------------------- *)
\* every method returns the Result it gives and the task it leaves behind;
\* "Panic" is an unwrap on a token that does not parse
Ret(r, t) == [res |-> r, task |-> t]

\* current_duration that counts the time since last_run of a stopped task too
Task_current_duration_AnyState(t, n) ==
    IF IsSome(t.last_run)
    THEN t.total_duration_seconds + Elapsed(Unwrap(t.last_run), n)
    ELSE t.total_duration_seconds

Task_current_duration(t, n) ==
    IF t.running
    THEN t.total_duration_seconds + Elapsed(Unwrap(t.last_run), n)
    ELSE t.total_duration_seconds

\* start without the running check
Task_start_NoGuard(t, n) ==
    Ret("Ok", [t EXCEPT !.running = TRUE, !.last_run = Some(n)])

Task_start(t, n) ==
    IF t.running THEN Ret("Err", t)
    ELSE Ret("Ok", [t EXCEPT !.running = TRUE, !.last_run = Some(n)])

\* stop that forgets to commit the elapsed time
Task_stop_NoCommit(t, n) ==
    IF ~t.running THEN Ret("Err", t)
    ELSE Ret("Ok", [t EXCEPT !.running = FALSE])

\* stop that forgets when the run began
Task_stop_ClearsLastRun(t, n) ==
    IF ~t.running THEN Ret("Err", t)
    ELSE Ret("Ok", [t EXCEPT !.running = FALSE,
                             !.total_duration_seconds =
                                 t.total_duration_seconds + Elapsed(Unwrap(t.last_run), n),
                             !.last_run = None])

Task_stop(t, n) ==
    IF ~t.running THEN Ret("Err", t)
    ELSE Ret("Ok", [t EXCEPT
             !.total_duration_seconds =
                 t.total_duration_seconds + Elapsed(Unwrap(t.last_run), n),
             !.running = FALSE])

\* cancel that discards the whole total
Task_cancel_Reset(t) ==
    IF ~t.running THEN Ret("Err", t)
    ELSE Ret("Ok", [t EXCEPT !.running = FALSE, !.total_duration_seconds = 0])

Task_cancel(t) ==
    IF ~t.running THEN Ret("Err", t)
    ELSE Ret("Ok", [t EXCEPT !.running = FALSE])

Task_rename(t, task_name) == Ret("Ok", [t EXCEPT !.name = task_name])

Task_set_time(t, time) ==
    LET p == parse_time_string_to_seconds(time)
    IN IF t.running THEN Ret("Err", t)
       ELSE IF p.kind /= "ok" THEN Ret("Panic", t)
       ELSE Ret("Ok", [t EXCEPT !.total_duration_seconds = p.val])

Task_add_time(t, time) ==
    LET p == parse_time_string_to_seconds(time)
    IN IF p.kind /= "ok" THEN Ret("Panic", t)
       ELSE Ret("Ok", [t EXCEPT !.total_duration_seconds =
                                    t.total_duration_seconds + p.val])

Task_subtract_time(t, time) ==
    LET p == parse_time_string_to_seconds(time)
    IN IF p.kind /= "ok" THEN Ret("Panic", t)
       ELSE IF t.total_duration_seconds < p.val THEN Ret("Err", t)
       ELSE Ret("Ok", [t EXCEPT !.total_duration_seconds =
                                    t.total_duration_seconds - p.val])

(* ------------------------- handlers (main.rs) -------------------------- *)
\* a handler returns the message it prints (as a result name) and the map
\* it leaves in memory; "Panic" is an expect that fails
Out(r, tasks) == [res |-> r, tasks |-> tasks]

\* HashMap::remove
Remove(tasks, k) == [j \in DOMAIN tasks \ {k} |-> tasks[j]]
\* HashMap::insert
Insert(tasks, k, t) == [j \in DOMAIN tasks \cup {k} |-> IF j = k THEN t ELSE tasks[j]]

RECURSIVE MaxIdLoop(_, _, _)
MaxIdLoop(tasks, keys, max_id) ==
    IF keys = {} THEN max_id
    ELSE LET k == CHOOSE x \in keys : TRUE
         IN MaxIdLoop(tasks, keys \ {k},
                      IF tasks[k].id > max_id THEN tasks[k].id ELSE max_id)

\* an id taken from the number of tasks
find_new_unique_id_Count(tasks) == Cardinality(DOMAIN tasks) + 1

find_new_unique_id(tasks) == MaxIdLoop(tasks, DOMAIN tasks, 0) + 1

\* create_task that leaves last_run absent
create_task_NoLastRun(tasks, task_name, start, n) ==
    LET id == find_new_unique_id(tasks)
        task == [id |-> id,
                 name |-> task_name,
                 total_duration_seconds |-> 0,
                 running |-> start,
                 last_run |-> None]
    IN Out("Ok", Insert(tasks, id, task))

\* create_task that stores the new task under the number of tasks plus one
create_task_CountKey(tasks, task_name, start, n) ==
    LET id == Cardinality(DOMAIN tasks) + 1
        task == [id |-> id,
                 name |-> task_name,
                 total_duration_seconds |-> 0,
                 running |-> start,
                 last_run |-> IF start THEN Some(n) ELSE None]
    IN Out("Ok", Insert(tasks, id, task))

create_task(tasks, task_name, start, n) ==
    LET id == find_new_unique_id(tasks)
        task == [id |-> id,
                 name |-> task_name,
                 total_duration_seconds |-> 0,
                 running |-> start,
                 last_run |-> IF start THEN Some(n) ELSE None]
    IN Out("Ok", Insert(tasks, id, task))

\* delete_task that reports the removal and keeps the entry
delete_task_KeepsEntry(tasks, task_id) ==
    IF task_id \in DOMAIN tasks
    THEN Out("Ok", tasks)
    ELSE Out("NotFound", tasks)

delete_task(tasks, task_id) ==
    IF task_id \in DOMAIN tasks
    THEN Out("Ok", Remove(tasks, task_id))
    ELSE Out("NotFound", tasks)

\* start_task that does not write last_run
start_task_KeepLastRun(tasks, task_id, n) ==
    IF task_id \in DOMAIN tasks
    THEN IF tasks[task_id].running
         THEN Out("AlreadyRunning", tasks)
         ELSE Out("Ok", [tasks EXCEPT ![task_id].running = TRUE])
    ELSE Out("NotFound", tasks)

start_task(tasks, task_id, n) ==
    IF task_id \in DOMAIN tasks
    THEN IF tasks[task_id].running
         THEN Out("AlreadyRunning", tasks)
         ELSE Out("Ok", [tasks EXCEPT ![task_id].running = TRUE,
                                      ![task_id].last_run = Some(n)])
    ELSE Out("NotFound", tasks)

\* stop_task that stores the elapsed time instead of adding it
stop_task_Overwrite(tasks, task_id, n) ==
    IF task_id \in DOMAIN tasks
    THEN IF ~tasks[task_id].running
         THEN Out("NotRunning", tasks)
         ELSE LET task == tasks[task_id]
                  duration == Elapsed(Unwrap(task.last_run), n)
              IN Out("Ok", [tasks EXCEPT
                       ![task_id].running = FALSE,
                       ![task_id].total_duration_seconds = duration])
    ELSE Out("NotFound", tasks)

stop_task(tasks, task_id, n) ==
    IF task_id \in DOMAIN tasks
    THEN IF ~tasks[task_id].running
         THEN Out("NotRunning", tasks)
         ELSE LET task == tasks[task_id]
                  duration == task.total_duration_seconds
                              + Elapsed(Unwrap(task.last_run), n)
              IN Out("Ok", [tasks EXCEPT
                       ![task_id].running = FALSE,
                       ![task_id].total_duration_seconds = duration])
    ELSE Out("NotFound", tasks)

rename_task(tasks, task_id, task_name) ==
    IF task_id \in DOMAIN tasks
    THEN Out("Ok", [tasks EXCEPT ![task_id].name = task_name])
    ELSE Out("NotFound", tasks)

\* add_time that refuses a running task, as set_time does
add_time_Busy(tasks, task_id, time) ==
    IF task_id \in DOMAIN tasks
    THEN IF tasks[task_id].running
         THEN Out("TaskBusy", tasks)
         ELSE LET p == parse_time_to_seconds(time)
              IN IF p.kind /= "ok" THEN Out("Panic", tasks)
                 ELSE Out("Ok", [tasks EXCEPT ![task_id].total_duration_seconds =
                                   tasks[task_id].total_duration_seconds + p.val])
    ELSE Out("NotFound", tasks)

add_time(tasks, task_id, time) ==
    IF task_id \in DOMAIN tasks
    THEN LET p == parse_time_to_seconds(time)
         IN IF p.kind /= "ok" THEN Out("Panic", tasks)
            ELSE Out("Ok", [tasks EXCEPT ![task_id].total_duration_seconds =
                              tasks[task_id].total_duration_seconds + p.val])
    ELSE Out("NotFound", tasks)

\* subtract_time without the check against the total
subtract_time_NoGuard(tasks, task_id, time) ==
    IF task_id \in DOMAIN tasks
    THEN LET p == parse_time_to_seconds(time)
         IN IF p.kind /= "ok" THEN Out("Panic", tasks)
            ELSE Out("Ok", [tasks EXCEPT ![task_id].total_duration_seconds =
                              tasks[task_id].total_duration_seconds - p.val])
    ELSE Out("NotFound", tasks)

subtract_time(tasks, task_id, time) ==
    IF task_id \in DOMAIN tasks
    THEN LET p == parse_time_to_seconds(time)
         IN IF p.kind /= "ok" THEN Out("Panic", tasks)
            ELSE IF tasks[task_id].total_duration_seconds < p.val
            THEN Out("InsufficientDuration", tasks)
            ELSE Out("Ok", [tasks EXCEPT ![task_id].total_duration_seconds =
                              tasks[task_id].total_duration_seconds - p.val])
    ELSE Out("NotFound", tasks)

\* set_time without the running check
set_time_NoBusy(tasks, task_id, time) ==
    IF task_id \in DOMAIN tasks
    THEN LET p == parse_time_to_seconds(time)
         IN IF p.kind /= "ok" THEN Out("Panic", tasks)
            ELSE Out("Ok", [tasks EXCEPT
                     ![task_id].total_duration_seconds = p.val])
    ELSE Out("NotFound", tasks)

set_time(tasks, task_id, time) ==
    IF task_id \in DOMAIN tasks
    THEN IF tasks[task_id].running
         THEN Out("TaskBusy", tasks)
         ELSE LET p == parse_time_to_seconds(time)
              IN IF p.kind /= "ok" THEN Out("Panic", tasks)
                 ELSE Out("Ok", [tasks EXCEPT
                          ![task_id].total_duration_seconds = p.val])
    ELSE Out("NotFound", tasks)

\* archive_task whose copy keeps the id it had in the source map
archive_task_KeepId(tasks, archived_tasks, task_id) ==
    IF task_id \in DOMAIN tasks
    THEN IF tasks[task_id].running
         THEN [res |-> "TaskBusy", tasks |-> tasks, archived |-> archived_tasks]
         ELSE LET task == tasks[task_id]
                  id == task_id
                  arch_task == [id |-> id,
                                name |-> task.name,
                                total_duration_seconds |-> task.total_duration_seconds,
                                running |-> task.running,
                                last_run |-> task.last_run]
              IN [res |-> "Ok",
                  tasks |-> Remove(tasks, task_id),
                  archived |-> Insert(archived_tasks, id, arch_task)]
    ELSE [res |-> "NotFound", tasks |-> tasks, archived |-> archived_tasks]

\* archive_task whose copy is stored under the new id but keeps the id field
\* it had in the source map
archive_task_StaleIdField(tasks, archived_tasks, task_id) ==
    IF task_id \in DOMAIN tasks
    THEN IF tasks[task_id].running
         THEN [res |-> "TaskBusy", tasks |-> tasks, archived |-> archived_tasks]
         ELSE LET task == tasks[task_id]
                  id == find_new_unique_id(archived_tasks)
              IN [res |-> "Ok",
                  tasks |-> Remove(tasks, task_id),
                  archived |-> Insert(archived_tasks, id, task)]
    ELSE [res |-> "NotFound", tasks |-> tasks, archived |-> archived_tasks]

\* archive_task also loads and saves the archive map; it returns both maps
archive_task(tasks, archived_tasks, task_id) ==
    IF task_id \in DOMAIN tasks
    THEN IF tasks[task_id].running
         THEN [res |-> "TaskBusy", tasks |-> tasks, archived |-> archived_tasks]
         ELSE LET task == tasks[task_id]
                  id == find_new_unique_id(archived_tasks)
                  arch_task == [id |-> id,
                                name |-> task.name,
                                total_duration_seconds |-> task.total_duration_seconds,
                                running |-> task.running,
                                last_run |-> task.last_run]
              IN [res |-> "Ok",
                  tasks |-> Remove(tasks, task_id),
                  archived |-> Insert(archived_tasks, id, arch_task)]
    ELSE [res |-> "NotFound", tasks |-> tasks, archived |-> archived_tasks]

\* the archive branch of main() on the two files: refused when the category
\* is archive; otherwise archive_task writes the archive file and main() the
\* file of the category
main_archive(files, tt, id) ==
    IF tt = "archive"
    THEN [res |-> "CannotArchive", files |-> files]
    ELSE LET out == archive_task(files[tt], files["archive"], id)
         IN [res |-> out.res,
             files |-> IF out.res = "Ok"
                       THEN [files EXCEPT ![tt] = out.tasks,
                                          !["archive"] = out.archived]
                       ELSE [files EXCEPT ![tt] = out.tasks]]

\* get_current_duration reads the clock (n) for a running task
get_current_duration(task, n) ==
    IF task.running
    THEN task.total_duration_seconds + Elapsed(Unwrap(task.last_run), n)
    ELSE task.total_duration_seconds

\* ids.sort(): the ids in ascending order
RECURSIVE SortIds(_)
SortIds(S) ==
    IF S = {} THEN <<>>
    ELSE LET m == CHOOSE x \in S : \A y \in S : x <= y
         IN <<m>> \o SortIds(S \ {m})

RECURSIVE SumDurations(_, _, _, _)
SumDurations(tasks, ids, i, n) ==
    IF i > Len(ids) THEN 0
    ELSE get_current_duration(tasks[ids[i]], n) + SumDurations(tasks, ids, i + 1, n)

\* list_tasks that totals every task of the store
list_tasks_TotalOfAll(tasks, list_all, n) ==
    LET ids == SortIds({tasks[k].id : k \in {j \in DOMAIN tasks :
                                                tasks[j].running \/ list_all}})
        every == SortIds({tasks[k].id : k \in DOMAIN tasks})
    IN IF \E i \in 1..Len(ids) : ids[i] \notin DOMAIN tasks
       THEN [res |-> "Panic", tasks |-> tasks, ids |-> <<>>, total |-> 0]
       ELSE [res |-> "Ok", tasks |-> tasks, ids |-> ids,
             total |-> IF ids = <<>> THEN 0 ELSE SumDurations(tasks, every, 1, n)]

\* list_tasks prints the listed ids in order and their total; it looks each
\* listed id up as a key (unwrap), and the invocation reads the clock as n
list_tasks(tasks, list_all, n) ==
    LET ids == SortIds({tasks[k].id : k \in {j \in DOMAIN tasks :
                                                tasks[j].running \/ list_all}})
    IN IF \E i \in 1..Len(ids) : ids[i] \notin DOMAIN tasks
       THEN [res |-> "Panic", tasks |-> tasks, ids |-> <<>>, total |-> 0]
       ELSE [res |-> "Ok", tasks |-> tasks, ids |-> ids,
             total |-> SumDurations(tasks, ids, 1, n)]

\* str::trim, str::to_lowercase and eq_ignore_ascii_case on the characters a
\* confirmation can hold
Whitespace == {" ", "\n"}

RECURSIVE trim_start(_)
trim_start(s) ==
    IF s /= <<>> /\ Head(s) \in Whitespace THEN trim_start(Tail(s)) ELSE s

RECURSIVE trim_end(_)
trim_end(s) ==
    IF s /= <<>> /\ s[Len(s)] \in Whitespace
    THEN trim_end(SubSeq(s, 1, Len(s) - 1))
    ELSE s

trim(s) == trim_end(trim_start(s))

LowerChar(c) == CASE c = "Y" -> "y" [] c = "N" -> "n" [] c = "X" -> "x" [] OTHER -> c

to_lowercase(s) == [i \in 1..Len(s) |-> LowerChar(s[i])]

eq_ignore_ascii_case(a, b) == to_lowercase(a) = to_lowercase(b)

\* Stdin::read_line appends the line and its newline to the buffer
read_line(input, line) == input \o line \o <<"\n">>

\* one turn of the loop of clear_tasks: the buffer after the read, and what
\* the loop does with the response
clear_tasks_turn(input, line) ==
    LET buf == read_line(input, line)
        response == to_lowercase(trim(buf))
    IN [input |-> buf,
        verdict |-> IF eq_ignore_ascii_case(response, <<"y">>) THEN "yes"
                    ELSE IF eq_ignore_ascii_case(response, <<"n">>) THEN "no"
                    ELSE "invalid"]

\* clear_tasks on the responses the user gives, in order; with no response
\* left to read the loop has not ended ("Prompting")
RECURSIVE clear_tasks_loop(_, _, _)
clear_tasks_loop(tasks, input, lines) ==
    IF lines = <<>> THEN Out("Prompting", tasks)
    ELSE LET turn == clear_tasks_turn(input, Head(lines))
         IN IF turn.verdict = "yes" THEN Out("Cleared", [j \in {} |-> 0])
            ELSE IF turn.verdict = "no" THEN Out("Canceled", tasks)
            ELSE clear_tasks_loop(tasks, turn.input, Tail(lines))

clear_tasks(tasks, lines) == clear_tasks_loop(tasks, <<>>, lines)

\* save_tasks replaces the file of the category by the map it is given;
\* load_tasks reads it, a file that does not exist being read as the empty map
\* save_tasks that keeps the entries of the file that the map does not have
save_tasks_Merge(files, task_type, tasks) ==
    [files EXCEPT ![task_type] =
        [k \in DOMAIN files[task_type] \cup DOMAIN tasks |->
            IF k \in DOMAIN tasks THEN tasks[k] ELSE files[task_type][k]]]

save_tasks(files, task_type, tasks) == [files EXCEPT ![task_type] = tasks]

load_tasks(files, task_type) == files[task_type]

(* ------------------------------- state --------------------------------- *)
\* stores[c]: the map persisted in the file of category c
\* now:       the latest reading of the system clock, in ticks; recorded when
\*            acct.mode /= "off"
\* last:      the latest invocation: its operation, arguments and result, and
\*            the stores it started from; recorded when acct.mode /= "off"
\* acct:      bookkeeping of the runs of the task ("current", 1), kept only
\*            when acct.mode = "timer" (the single-task timer specification)
\* procs[p]:  the invocation process p is in, step by step (the process
\*            specification); the other specifications run an invocation as
\*            one action and leave procs alone
EmptyStore == [j \in {} |-> 0]

StoreSize(tasks) == Cardinality(DOMAIN tasks)

Bounded(st) ==
    /\ \A c \in Category :
          /\ DOMAIN st[c] \subseteq 1..MaxId
          /\ \A k \in DOMAIN st[c] : st[c][k].total_duration_seconds <= MaxTotal
    /\ StoreSize(st["current"]) + StoreSize(st["archive"]) <= MaxTasks

NoLast == [op |-> "none", tt |-> "current", id |-> 0, res |-> "none",
           tok |-> <<>>, name |-> "", pre |-> [c \in Category |-> EmptyStore]]

Call(op, tt, id, res, tok, name) ==
    IF acct.mode = "off" THEN last
    ELSE [op |-> op, tt |-> tt, id |-> id, res |-> res, tok |-> tok, name |-> name,
          pre |-> stores]

\* the clock after an invocation that read n
Clock(n) == IF acct.mode = "off" THEN now ELSE n

\* lastStart: the clock reading of the latest start of the task that
\* succeeded, None while it was never started
NoAcct(mode) == [mode |-> mode, sumTicks |-> 0, sumSecs |-> 0, startTotal |-> 0,
                 lastStart |-> None]

StartOps == {"start_task", "Task::start"}
StopOps == {"stop_task", "Task::stop"}
CancelOps == {"Task::cancel"}

\* the bookkeeping after an invocation of op on (tt, id) at clock reading n
AcctAfter(op, tt, id, res, n) ==
    IF acct.mode = "off" \/ tt /= "current" \/ id /= 1 \/ res /= "Ok" THEN acct
    ELSE LET t == stores[tt][id]
             started == IF op \in StartOps
                        THEN [acct EXCEPT !.lastStart = Some(n)]
                        ELSE acct
         IN IF acct.mode /= "timer" THEN started
            ELSE IF op \in StartOps
            THEN [started EXCEPT !.startTotal = t.total_duration_seconds]
            ELSE IF op \in StopOps
            THEN [started EXCEPT
                    !.sumTicks = @ + (n - Unwrap(t.last_run)),
                    !.sumSecs = @ + ((n - Unwrap(t.last_run)) \div TicksPerSec)]
            ELSE started

\* main(): load_tasks, the handler, save_tasks; a panic skips save_tasks
Saved(tt, out) ==
    IF out.res = "Panic" THEN stores ELSE [stores EXCEPT ![tt] = out.tasks]

\* a Task method applied to the task stored under id
Applied(tt, id, ret) ==
    IF ret.res = "Panic" THEN stores ELSE [stores EXCEPT ![tt][id] = ret.task]

Procs == {"p", "q"}

NoCmd == [op |-> "none", id |-> 0, name |-> "", start |-> FALSE, tok |-> <<>>,
          all |-> FALSE]

\* a process that has not started. pc is where it is in main(); tt and cmd are
\* the category and the command it was given; mem is the map it loaded, arch
\* the archive map archive_task loaded, input the buffer of clear_tasks.
\* Kept for the claims: res, the answer of the handler; answers, the
\* responses read so far; wrote, the files it has written, in order; loadedAt,
\* the number of saves of main() done when it loaded; savedAt, the rank of its
\* own save among them
Idle == [pc |-> "idle", tt |-> "current", cmd |-> NoCmd, mem |-> EmptyStore,
         arch |-> EmptyStore, input |-> <<>>, res |-> "none", answers |-> <<>>,
         wrote |-> <<>>, loadedAt |-> 0, savedAt |-> 0]

NoProcs == [p \in Procs |-> Idle]

\* procs in the specifications that run an invocation as one action
NoProcess == <<>>

Init ==
    /\ stores = [c \in Category |-> EmptyStore]
    /\ now = 0
    /\ last = NoLast
    /\ acct = NoAcct("off")
    /\ procs = NoProcess

(* ------------------------ invocations (main.rs) ------------------------ *)
Create(tt, name, start, n) ==
    LET out == create_task(stores[tt], name, start, n)
    IN /\ Bounded(Saved(tt, out))
       /\ stores' = Saved(tt, out)
       /\ now' = Clock(n)
       /\ last' = Call("create_task", tt, find_new_unique_id(stores[tt]), out.res, <<>>, name)
       /\ UNCHANGED <<acct, procs>>

Delete(tt, id) ==
    LET out == delete_task(stores[tt], id)
    IN /\ stores' = Saved(tt, out)
       /\ last' = Call("delete_task", tt, id, out.res, <<>>, "")
       /\ UNCHANGED <<now, acct, procs>>

Start(tt, id, n) ==
    LET out == start_task(stores[tt], id, n)
    IN /\ stores' = Saved(tt, out)
       /\ now' = Clock(n)
       /\ last' = Call("start_task", tt, id, out.res, <<>>, "")
       /\ acct' = AcctAfter("start_task", tt, id, out.res, n)
       /\ UNCHANGED procs

Stop(tt, id, n) ==
    LET out == stop_task(stores[tt], id, n)
    IN /\ Bounded(Saved(tt, out))
       /\ stores' = Saved(tt, out)
       /\ now' = Clock(n)
       /\ last' = Call("stop_task", tt, id, out.res, <<>>, "")
       /\ acct' = AcctAfter("stop_task", tt, id, out.res, n)
       /\ UNCHANGED procs

Rename(tt, id, name) ==
    LET out == rename_task(stores[tt], id, name)
    IN /\ stores' = Saved(tt, out)
       /\ last' = Call("rename_task", tt, id, out.res, <<>>, name)
       /\ UNCHANGED <<now, acct, procs>>

AddTime(tt, id, tok) ==
    LET out == add_time(stores[tt], id, tok)
    IN /\ Bounded(Saved(tt, out))
       /\ stores' = Saved(tt, out)
       /\ last' = Call("add_time", tt, id, out.res, tok, "")
       /\ UNCHANGED <<now, acct, procs>>

SubtractTime(tt, id, tok) ==
    LET out == subtract_time(stores[tt], id, tok)
    IN /\ stores' = Saved(tt, out)
       /\ last' = Call("subtract_time", tt, id, out.res, tok, "")
       /\ UNCHANGED <<now, acct, procs>>

SetTime(tt, id, tok) ==
    LET out == set_time(stores[tt], id, tok)
    IN /\ Bounded(Saved(tt, out))
       /\ stores' = Saved(tt, out)
       /\ last' = Call("set_time", tt, id, out.res, tok, "")
       /\ UNCHANGED <<now, acct, procs>>

\* main() refuses archive when the category is archive and returns before
\* save_tasks; otherwise archive_task saves the archive map and main() saves
\* the current one
Archive(tt, id) ==
    LET r == main_archive(stores, tt, id)
    IN /\ Bounded(r.files)
       /\ stores' = r.files
       /\ last' = Call("archive_task", tt, id, r.res, <<>>, "")
       /\ UNCHANGED <<now, acct, procs>>

List(tt, list_all, n) ==
    LET out == list_tasks(stores[tt], list_all, n)
    IN /\ stores' = Saved(tt, out)
       /\ now' = Clock(n)
       /\ last' = Call("list_tasks", tt, 0, out.res, <<>>, "")
       /\ UNCHANGED <<acct, procs>>

\* an invocation of clear that the responses bring to an end
Clear(tt, lines) ==
    LET out == clear_tasks(stores[tt], lines)
    IN /\ out.res /= "Prompting"
       /\ stores' = Saved(tt, out)
       /\ last' = Call("clear_tasks", tt, 0, out.res, <<>>, "")
       /\ UNCHANGED <<now, acct, procs>>

(* --------------------- Task methods on a stored task ------------------- *)
MStart(tt, id, n) ==
    /\ id \in DOMAIN stores[tt]
    /\ LET ret == Task_start(stores[tt][id], n)
       IN /\ stores' = Applied(tt, id, ret)
          /\ now' = Clock(n)
          /\ last' = Call("Task::start", tt, id, ret.res, <<>>, "")
          /\ acct' = AcctAfter("Task::start", tt, id, ret.res, n)
          /\ UNCHANGED procs

MStop(tt, id, n) ==
    /\ id \in DOMAIN stores[tt]
    /\ LET ret == Task_stop(stores[tt][id], n)
       IN /\ Bounded(Applied(tt, id, ret))
          /\ stores' = Applied(tt, id, ret)
          /\ now' = Clock(n)
          /\ last' = Call("Task::stop", tt, id, ret.res, <<>>, "")
          /\ acct' = AcctAfter("Task::stop", tt, id, ret.res, n)
          /\ UNCHANGED procs

MCancel(tt, id, n) ==
    /\ id \in DOMAIN stores[tt]
    /\ LET ret == Task_cancel(stores[tt][id])
       IN /\ stores' = Applied(tt, id, ret)
          /\ now' = Clock(n)
          /\ last' = Call("Task::cancel", tt, id, ret.res, <<>>, "")
          /\ acct' = AcctAfter("Task::cancel", tt, id, ret.res, n)
          /\ UNCHANGED procs

\* current_duration takes &self: the task is read at clock n and not written
MCurrentDuration(tt, id, n) ==
    /\ id \in DOMAIN stores[tt]
    /\ now' = Clock(n)
    /\ last' = Call("Task::current_duration", tt, id, "Ok", <<>>, "")
    /\ UNCHANGED <<stores, acct, procs>>

MRename(tt, id, name) ==
    /\ id \in DOMAIN stores[tt]
    /\ LET ret == Task_rename(stores[tt][id], name)
       IN /\ stores' = Applied(tt, id, ret)
          /\ last' = Call("Task::rename", tt, id, ret.res, <<>>, name)
          /\ UNCHANGED <<now, acct, procs>>

MSetTime(tt, id, tok) ==
    /\ id \in DOMAIN stores[tt]
    /\ LET ret == Task_set_time(stores[tt][id], tok)
       IN /\ Bounded(Applied(tt, id, ret))
          /\ stores' = Applied(tt, id, ret)
          /\ last' = Call("Task::set_time", tt, id, ret.res, tok, "")
          /\ UNCHANGED <<now, acct, procs>>

MAddTime(tt, id, tok) ==
    /\ id \in DOMAIN stores[tt]
    /\ LET ret == Task_add_time(stores[tt][id], tok)
       IN /\ Bounded(Applied(tt, id, ret))
          /\ stores' = Applied(tt, id, ret)
          /\ last' = Call("Task::add_time", tt, id, ret.res, tok, "")
          /\ UNCHANGED <<now, acct, procs>>

MSubtractTime(tt, id, tok) ==
    /\ id \in DOMAIN stores[tt]
    /\ LET ret == Task_subtract_time(stores[tt][id], tok)
       IN /\ stores' = Applied(tt, id, ret)
          /\ last' = Call("Task::subtract_time", tt, id, ret.res, tok, "")
          /\ UNCHANGED <<now, acct, procs>>

\* the ids an invocation is given: those of the store, and one that is absent
IdsOf(tt) == DOMAIN stores[tt] \cup {MaxId + 1}

\* ---- the store specification: both categories, every command of the
\* ---- binary, and Task::cancel, for which the binary has no command (the
\* ---- other Task methods do what their commands do; SpecTask runs them)
Next ==
    \/ \E tt \in Category, name \in Names, start \in BOOLEAN, n \in StartTimes :
          Create(tt, name, start, n)
    \/ \E tt \in Category : \E id \in IdsOf(tt) : Delete(tt, id)
    \/ \E tt \in Category : \E id \in IdsOf(tt), n \in StartTimes : Start(tt, id, n)
    \/ \E tt \in Category : \E id \in IdsOf(tt), n \in Times : Stop(tt, id, n)
    \/ \E tt \in Category : \E id \in IdsOf(tt), name \in Names : Rename(tt, id, name)
    \/ \E tt \in Category : \E id \in IdsOf(tt), tok \in StoreTokens : AddTime(tt, id, tok)
    \/ \E tt \in Category : \E id \in IdsOf(tt), tok \in StoreTokens : SubtractTime(tt, id, tok)
    \/ \E tt \in Category : \E id \in IdsOf(tt), tok \in StoreTokens : SetTime(tt, id, tok)
    \/ \E tt \in Category : \E id \in IdsOf(tt) : Archive(tt, id)
    \/ \E tt \in Category, list_all \in BOOLEAN, n \in Times : List(tt, list_all, n)
    \/ \E tt \in Category, line \in Lines : Clear(tt, <<line>>)
    \/ \E tt \in Category : \E id \in IdsOf(tt), n \in Times : MCancel(tt, id, n)

Spec == Init /\ [][Next]_vars

\* ---- the single-task specification: one task of the current store, every
\* ---- operation on a task, every token, with the history recorded
InitTask ==
    \E name \in Names, start \in BOOLEAN, n \in Times :
        /\ stores = [c \in Category |->
                        IF c = "current"
                        THEN create_task(EmptyStore, name, start, n).tasks
                        ELSE EmptyStore]
        /\ now = n
        /\ last = NoLast
        /\ acct = [NoAcct("task") EXCEPT !.lastStart = IF start THEN Some(n) ELSE None]
        /\ procs = NoProcess

TaskIds == 1..2

NextTask ==
    \/ \E id \in TaskIds, n \in Times : Start("current", id, n)
    \/ \E id \in TaskIds, n \in Times : Stop("current", id, n)
    \/ \E id \in TaskIds, name \in Names : Rename("current", id, name)
    \/ \E id \in TaskIds, tok \in Tokens : AddTime("current", id, tok)
    \/ \E id \in TaskIds, tok \in Tokens : SubtractTime("current", id, tok)
    \/ \E id \in TaskIds, tok \in Tokens : SetTime("current", id, tok)
    \/ \E id \in TaskIds, n \in Times : MStart("current", id, n)
    \/ \E id \in TaskIds, n \in Times : MStop("current", id, n)
    \/ \E id \in TaskIds, n \in Times : MCancel("current", id, n)
    \/ \E id \in TaskIds, n \in Times : MCurrentDuration("current", id, n)
    \/ \E id \in TaskIds, name \in Names : MRename("current", id, name)
    \/ \E id \in TaskIds, tok \in Tokens : MSetTime("current", id, tok)
    \/ \E id \in TaskIds, tok \in Tokens : MAddTime("current", id, tok)
    \/ \E id \in TaskIds, tok \in Tokens : MSubtractTime("current", id, tok)

SpecTask == InitTask /\ [][NextTask]_vars

\* ---- the timer specification: one task created stopped, start / stop /
\* ---- cancel only, a clock that never goes back, the runs accounted
InitTimer ==
    /\ stores = [c \in Category |->
                    IF c = "current"
                    THEN create_task(EmptyStore, "a", FALSE, 0).tasks
                    ELSE EmptyStore]
    /\ now = 0
    /\ last = NoLast
    /\ acct = NoAcct("timer")
    /\ procs = NoProcess

NextTimer ==
    \/ \E n \in TimerTimes : n >= now /\ Start("current", 1, n)
    \/ \E n \in TimerTimes : n >= now /\ Stop("current", 1, n)
    \/ \E n \in TimerTimes : n >= now /\ MStart("current", 1, n)
    \/ \E n \in TimerTimes : n >= now /\ MStop("current", 1, n)
    \/ \E n \in TimerTimes : n >= now /\ MCancel("current", 1, n)

SpecTimer == InitTimer /\ [][NextTimer]_vars

(* ------------------ an invocation, one step at a time ------------------ *)
\* the handler main() dispatches to, on the map in memory
Handle(cmd, tasks, n) ==
    CASE cmd.op = "create" -> create_task(tasks, cmd.name, cmd.start, n)
      [] cmd.op = "delete" -> delete_task(tasks, cmd.id)
      [] cmd.op = "start" -> start_task(tasks, cmd.id, n)
      [] cmd.op = "stop" -> stop_task(tasks, cmd.id, n)
      [] cmd.op = "rename" -> rename_task(tasks, cmd.id, cmd.name)
      [] cmd.op = "add" -> add_time(tasks, cmd.id, cmd.tok)
      [] cmd.op = "sub" -> subtract_time(tasks, cmd.id, cmd.tok)
      [] cmd.op = "set" -> set_time(tasks, cmd.id, cmd.tok)
      [] cmd.op = "list" -> list_tasks(tasks, cmd.all, n)

SavesDone == Cardinality({q \in Procs : procs[q].savedAt > 0})

\* main() up to load_tasks: the arguments are parsed and the file is read
Load(p, tt, cmd) ==
    /\ procs[p].pc = "idle"
    /\ procs' = [procs EXCEPT ![p] = [Idle EXCEPT !.pc = "loaded", !.tt = tt,
                                                  !.cmd = cmd,
                                                  !.mem = load_tasks(stores, tt),
                                                  !.loadedAt = SavesDone]]
    /\ UNCHANGED <<stores, now, last, acct>>

\* the dispatch of a command other than archive and clear: the handler runs
\* on the map in memory; a panic ends the process
Run(p, n) ==
    /\ procs[p].pc = "loaded"
    /\ procs[p].cmd.op \notin {"archive", "clear"}
    /\ LET out == Handle(procs[p].cmd, procs[p].mem, n)
       IN procs' = [procs EXCEPT ![p].pc = IF out.res = "Panic" THEN "panicked"
                                            ELSE "ran",
                                 ![p].res = out.res,
                                 ![p].mem = out.tasks]
    /\ UNCHANGED <<stores, now, last, acct>>

\* archive, first half: main() returns when the category is archive;
\* archive_task looks the task up and, for a stopped task, loads the archive
RunArchive(p) ==
    /\ procs[p].pc = "loaded"
    /\ procs[p].cmd.op = "archive"
    /\ LET me == procs[p]
           out == archive_task(me.mem, EmptyStore, me.cmd.id)
       IN procs' = [procs EXCEPT ![p] =
             IF me.tt = "archive"
             THEN [me EXCEPT !.pc = "returned", !.res = "CannotArchive"]
             ELSE IF out.res /= "Ok"
             THEN [me EXCEPT !.pc = "ran", !.res = out.res]
             ELSE [me EXCEPT !.pc = "archiving",
                             !.arch = load_tasks(stores, "archive")]]
    /\ UNCHANGED <<stores, now, last, acct>>

\* second half of archive that leaves the archive file for later
SaveArchive_Deferred(p) ==
    /\ procs[p].pc = "archiving"
    /\ LET me == procs[p]
           out == archive_task(me.mem, me.arch, me.cmd.id)
       IN procs' = [procs EXCEPT ![p].pc = "ran",
                                 ![p].res = out.res,
                                 ![p].mem = out.tasks,
                                 ![p].arch = out.archived]
    /\ UNCHANGED <<stores, now, last, acct>>

\* archive, second half: the copy is inserted, the task removed from the map
\* in memory, and the archive file saved
SaveArchive(p) ==
    /\ procs[p].pc = "archiving"
    /\ LET me == procs[p]
           out == archive_task(me.mem, me.arch, me.cmd.id)
       IN /\ stores' = save_tasks(stores, "archive", out.archived)
          /\ procs' = [procs EXCEPT ![p].pc = "ran",
                                    ![p].res = out.res,
                                    ![p].mem = out.tasks,
                                    ![p].arch = out.archived,
                                    ![p].wrote = Append(me.wrote, "archive")]
    /\ UNCHANGED <<now, last, acct>>

\* clear: clear_tasks starts with an empty buffer and prompts
RunClear(p) ==
    /\ procs[p].pc = "loaded"
    /\ procs[p].cmd.op = "clear"
    /\ procs' = [procs EXCEPT ![p].pc = "prompt", ![p].input = <<>>]
    /\ UNCHANGED <<stores, now, last, acct>>

\* one turn of the loop of clear_tasks on the response `line`
ReadLine(p, line) ==
    /\ procs[p].pc = "prompt"
    /\ Len(procs[p].answers) < MaxLines
    /\ LET me == procs[p]
           turn == clear_tasks_turn(me.input, line)
       IN procs' = [procs EXCEPT ![p] =
             [me EXCEPT !.input = turn.input,
                        !.answers = Append(me.answers, line),
                        !.pc = IF turn.verdict = "invalid" THEN "prompt" ELSE "ran",
                        !.res = CASE turn.verdict = "yes" -> "Cleared"
                                  [] turn.verdict = "no" -> "Canceled"
                                  [] OTHER -> me.res,
                        !.mem = IF turn.verdict = "yes" THEN EmptyStore ELSE me.mem]]
    /\ UNCHANGED <<stores, now, last, acct>>

\* the save_tasks that ends main()
Save(p) ==
    /\ procs[p].pc = "ran"
    /\ stores' = save_tasks(stores, procs[p].tt, procs[p].mem)
    /\ procs' = [procs EXCEPT ![p].pc = "done",
                              ![p].wrote = Append(procs[p].wrote, procs[p].tt),
                              ![p].savedAt = SavesDone + 1]
    /\ UNCHANGED <<now, last, acct>>

\* the commands the processes are given
ProcCmds ==
    {[NoCmd EXCEPT !.op = "create", !.name = "b"]}
    \cup {[NoCmd EXCEPT !.op = op, !.id = id] :
             op \in {"delete", "start", "stop", "archive"}, id \in TaskIds}
    \cup {[NoCmd EXCEPT !.op = "rename", !.id = id, !.name = "b"] : id \in TaskIds}
    \cup {[NoCmd EXCEPT !.op = op, !.id = id, !.tok = tok] :
             op \in {"add", "sub", "set"}, id \in TaskIds, tok \in StoreTokens}
    \cup {[NoCmd EXCEPT !.op = "list", !.all = a] : a \in BOOLEAN}
    \cup {[NoCmd EXCEPT !.op = "clear"]}

\* ---- the process specification: two invocations, each a process that
\* ---- loads, runs its handler and saves, on files that hold one task
InitProc ==
    \E start \in BOOLEAN :
        /\ stores = [c \in Category |->
                        IF c = "current"
                        THEN create_task(EmptyStore, "a", start, 0).tasks
                        ELSE EmptyStore]
        /\ now = 0
        /\ last = NoLast
        /\ acct = NoAcct("off")
        /\ procs = NoProcs

NextProc ==
    \/ \E p \in Procs, tt \in Category, cmd \in ProcCmds : Load(p, tt, cmd)
    \/ \E p \in Procs, n \in Times : Run(p, n)
    \/ \E p \in Procs : RunArchive(p)
    \/ \E p \in Procs : SaveArchive(p)
    \/ \E p \in Procs : RunClear(p)
    \/ \E p \in Procs, line \in {<<"y">>, <<"N">>} : ReadLine(p, line)
    \/ \E p \in Procs : Save(p)

SpecProc == InitProc /\ [][NextProc]_vars

\* ---- the clear specification: one invocation of clear, and every response
\* ---- the user can give to its prompt
NextClear ==
    \/ \E tt \in Category : Load("p", tt, [NoCmd EXCEPT !.op = "clear"])
    \/ RunClear("p")
    \/ \E line \in Lines : ReadLine("p", line)
    \/ Save("p")

SpecClear == InitProc /\ [][NextClear]_vars

\* ---- the parser specification: a time token is typed character by
\* ---- character and handed to either parser; last holds the token and then
\* ---- the outcome of the parse
TypeChar(c) ==
    /\ last.op = "none"
    /\ Len(last.tok) < MaxLen
    /\ last' = [last EXCEPT !.tok = Append(last.tok, c)]
    /\ UNCHANGED <<stores, now, acct, procs>>

ParseMain ==
    /\ last.op = "none"
    /\ LET p == parse_time_to_seconds(last.tok)
       IN last' = [op |-> "parse_time_to_seconds", tok |-> last.tok,
                   res |-> p.kind, val |-> p.val]
    /\ UNCHANGED <<stores, now, acct, procs>>

ParseUtils ==
    /\ last.op = "none"
    /\ LET p == parse_time_string_to_seconds(last.tok)
       IN last' = [op |-> "parse_time_string_to_seconds", tok |-> last.tok,
                   res |-> p.kind, val |-> p.val]
    /\ UNCHANGED <<stores, now, acct, procs>>

InitParse ==
    /\ stores = [c \in Category |-> EmptyStore]
    /\ now = 0
    /\ last = NoLast
    /\ acct = NoAcct("parse")
    /\ procs = NoProcess

NextParse ==
    \/ \E c \in Alphabet : TypeChar(c)
    \/ ParseMain
    \/ ParseUtils

SpecParse == InitParse /\ [][NextParse]_vars

\* ---- the archive specification: one invocation of archive on files that
\* ---- hold one or two tasks, which can be killed between any two steps;
\* ---- last.pre keeps the files the invocation started from
Crash(p) ==
    /\ procs[p].pc \in {"loaded", "archiving", "ran"}
    /\ procs' = [procs EXCEPT ![p].pc = "crashed"]
    /\ UNCHANGED <<stores, now, last, acct>>

InitArchive ==
    \E name \in Names, start \in BOOLEAN, added \in BOOLEAN,
       second \in {"none", "stopped", "running"}, archived \in BOOLEAN :
        LET one == create_task(EmptyStore, name, start, 0).tasks
            timed == IF added THEN add_time(one, 1, <<"1", "m">>).tasks ELSE one
            both == IF second = "none" THEN timed
                    ELSE create_task(timed, "b", second = "running", 0).tasks
            files == [c \in Category |->
                        IF c = "current" THEN both
                        ELSE IF archived
                        THEN create_task(EmptyStore, name, FALSE, 0).tasks
                        ELSE EmptyStore]
        IN /\ stores = files
           /\ now = 0
           /\ last = [NoLast EXCEPT !.pre = files]
           /\ acct = NoAcct("off")
           /\ procs = NoProcs

NextArchive ==
    \/ \E tt \in Category, id \in TaskIds :
          Load("p", tt, [NoCmd EXCEPT !.op = "archive", !.id = id])
    \/ RunArchive("p")
    \/ SaveArchive("p")
    \/ Save("p")
    \/ Crash("p")

SpecArchive == InitArchive /\ [][NextArchive]_vars

(* =============================== claims =============================== *)
\* the task an invocation addressed, before and after it
HasPre == last.op /= "none" /\ last.id \in DOMAIN last.pre[last.tt]
PreTask == last.pre[last.tt][last.id]
PostTask == stores[last.tt][last.id]

\* whole seconds in d ticks
WholeSeconds(d) == CHOOSE s \in 0..d : s * TicksPerSec <= d /\ d < (s + 1) * TicksPerSec

\* the seconds a well-formed token stands for
TokenSeconds(tok) ==
    CASE tok = <<"1", "m">> -> 60
      [] tok = <<"2", "m">> -> 120
      [] tok = <<"0", "h", "1", "m">> -> 60

ErrorResults == {"Err", "AlreadyRunning", "NotRunning", "TaskBusy", "InsufficientDuration"}
SubtractOps == {"subtract_time", "Task::subtract_time"}
SetOps == {"set_time", "Task::set_time"}
AddOps == {"add_time", "Task::add_time"}

\* C1: in every reachable state of the stores, every task with running = TRUE
\* has last_run present.
C1_RunningHasLastRun ==
    \A c \in Category : \A k \in DOMAIN stores[c] :
        stores[c][k].running => IsSome(stores[c][k].last_run)

\* a task runs in one store while an archived task sits in the other
C1_Witness ==
    /\ \E k \in DOMAIN stores["current"] : stores["current"][k].running
    /\ \E k \in DOMAIN stores["archive"] :
          ~stores["archive"][k].running /\ IsSome(stores["archive"][k].last_run)

\* C2: stop on a running task adds exactly the whole seconds between last_run
\* and the clock reading to the total (none when the clock is behind last_run),
\* clears running, succeeds, and keeps id and name.
C2_StopCommits ==
    (last.op \in StopOps /\ HasPre /\ PreTask.running) =>
        /\ last.res = "Ok"
        /\ ~PostTask.running
        /\ PostTask.total_duration_seconds =
              PreTask.total_duration_seconds
              + (IF now < Unwrap(PreTask.last_run) THEN 0
                 ELSE WholeSeconds(now - Unwrap(PreTask.last_run)))
        /\ PostTask.id = PreTask.id
        /\ PostTask.name = PreTask.name

\* a stop that committed a positive amount
C2_Witness ==
    /\ last.op \in StopOps /\ HasPre /\ PreTask.running
    /\ PostTask.total_duration_seconds > PreTask.total_duration_seconds

\* C3: cancel on a running task clears running and leaves the total at its
\* value before the preceding start, whatever time has passed since.
C3_CancelDiscards ==
    (last.op \in CancelOps /\ HasPre /\ PreTask.running) =>
        /\ last.res = "Ok"
        /\ ~PostTask.running
        /\ PostTask.total_duration_seconds = acct.startTotal
        /\ PostTask.total_duration_seconds = PreTask.total_duration_seconds

\* a cancel, a second or more after the start, of a task that had a total
C3_Witness ==
    /\ last.op \in CancelOps /\ HasPre /\ PreTask.running
    /\ now - Unwrap(PreTask.last_run) >= TicksPerSec
    /\ acct.startTotal > 0

\* C4: start on a stopped task sets running, sets last_run to the clock
\* reading, succeeds, and keeps total, id and name.
C4_StartSets ==
    (last.op \in StartOps /\ HasPre /\ ~PreTask.running) =>
        /\ last.res = "Ok"
        /\ PostTask.running
        /\ PostTask.last_run = Some(now)
        /\ PostTask.total_duration_seconds = PreTask.total_duration_seconds
        /\ PostTask.id = PreTask.id
        /\ PostTask.name = PreTask.name

\* a start that replaced an earlier last_run, on a task that has a total
C4_Witness ==
    /\ last.op \in StartOps /\ HasPre /\ ~PreTask.running
    /\ IsSome(PreTask.last_run) /\ PreTask.last_run /= PostTask.last_run
    /\ PreTask.total_duration_seconds > 0

\* C5: start on a running task, stop on a stopped task and cancel on a stopped
\* task return an error and change no field of the task.
C5_FailedTransition ==
    (HasPre /\ \/ last.op \in StartOps /\ PreTask.running
               \/ last.op \in StopOps \cup CancelOps /\ ~PreTask.running) =>
        /\ last.res \in ErrorResults
        /\ PostTask = PreTask
        /\ stores = last.pre

\* a start on a running task, at a clock reading other than its last_run
C5_Witness ==
    /\ HasPre /\ last.op \in StartOps /\ PreTask.running
    /\ now /= Unwrap(PreTask.last_run)

\* C6 as stated: after any sequence of start, stop and cancel under a clock
\* that never goes back, the total of a task created stopped equals the sum of
\* (stop time - start time) over the runs ended by stop, the sum being taken
\* in the whole seconds the total is kept in.
C6_TotalIsExactSum ==
    stores["current"][1].total_duration_seconds = WholeSeconds(acct.sumTicks)

\* C6 (amended): the total equals the sum, over the runs ended by stop, of the
\* whole seconds of (stop time - start time), each run truncated on its own;
\* runs ended by cancel and the run in progress contribute nothing.
C6_TotalIsSumOfWholeSeconds ==
    stores["current"][1].total_duration_seconds = acct.sumSecs

\* a run of a second and a fraction was committed, and a later run of a
\* second or more was cancelled
C6_Witness ==
    /\ acct.sumSecs >= 1
    /\ acct.sumTicks > acct.sumSecs * TicksPerSec
    /\ last.op \in CancelOps /\ HasPre /\ PreTask.running
    /\ now - Unwrap(PreTask.last_run) >= TicksPerSec

\* C7: subtract_time with a well-formed token of more seconds than the total
\* returns an error and leaves the total; otherwise it lowers the total by the
\* token's seconds; and no total is ever below 0.
C7_SubtractGuarded ==
    /\ \A c \in Category : \A k \in DOMAIN stores[c] :
          stores[c][k].total_duration_seconds >= 0
    /\ (last.op \in SubtractOps /\ HasPre /\ last.tok \in GoodTokens) =>
          IF TokenSeconds(last.tok) > PreTask.total_duration_seconds
          THEN /\ last.res \in ErrorResults
               /\ PostTask = PreTask
          ELSE /\ last.res = "Ok"
               /\ PostTask.total_duration_seconds =
                     PreTask.total_duration_seconds - TokenSeconds(last.tok)

\* a subtraction refused on a task that has a total
C7_Witness ==
    /\ last.op \in SubtractOps /\ HasPre /\ last.tok \in GoodTokens
    /\ PreTask.total_duration_seconds > 0
    /\ TokenSeconds(last.tok) > PreTask.total_duration_seconds

\* C8: set_time on a running task returns an error and leaves the total,
\* whatever the token; on a stopped task with a well-formed token it sets the
\* total to the token's seconds and leaves running and last_run.
C8_SetTimeGuarded ==
    (last.op \in SetOps /\ HasPre) =>
        IF PreTask.running
        THEN /\ last.res \in ErrorResults
             /\ PostTask.total_duration_seconds = PreTask.total_duration_seconds
        ELSE last.tok \in GoodTokens =>
                /\ last.res = "Ok"
                /\ PostTask.total_duration_seconds = TokenSeconds(last.tok)
                /\ PostTask.running = PreTask.running
                /\ PostTask.last_run = PreTask.last_run

\* set_time on a running task, with a token that differs from its total
C8_Witness ==
    /\ last.op \in SetOps /\ HasPre /\ PreTask.running
    /\ last.tok \in GoodTokens
    /\ TokenSeconds(last.tok) /= PreTask.total_duration_seconds

\* C9: add_time, subtract_time and set_time given a malformed token report
\* InvalidFormat as a value, do not abort, and leave the task and the store.
\* (set_time on a running task answers TaskBusy before it looks at the token.)
C9_MalformedIsRecoverable ==
    (/\ last.op \in AddOps \cup SubtractOps \cup SetOps
     /\ HasPre
     /\ last.tok \in BadTokens
     /\ ~(last.op \in SetOps /\ PreTask.running)) =>
        /\ last.res = "InvalidFormat"
        /\ stores = last.pre

\* C10: find_new_unique_id returns 1 on an empty store and otherwise 1 + the
\* largest id of the store, and never the id or the key of a stored task.
IdsIn(tasks) == {tasks[k].id : k \in DOMAIN tasks}
Largest(S) == CHOOSE m \in S : \A x \in S : x <= m

C10_AllocateId ==
    \A c \in Category :
        LET tasks == stores[c]
            id == find_new_unique_id(tasks)
        IN /\ id = (IF DOMAIN tasks = {} THEN 1 ELSE 1 + Largest(IdsIn(tasks)))
           /\ id \notin IdsIn(tasks)
           /\ id \notin DOMAIN tasks

\* a store whose ids have a gap below the largest, next to an empty store
C10_Witness ==
    /\ DOMAIN stores["current"] = {2}
    /\ DOMAIN stores["archive"] = {}

\* C11: archive of a stopped task adds to the archive store a copy with the
\* same name, total and last_run under the id 1 + the largest archive id (1 on
\* an empty archive), removes the task from the source store and leaves every
\* other task of both stores as it was; archive of a running task fails and
\* leaves both stores as they were.
C11_ArchiveMoves ==
    \A id \in DOMAIN stores["current"] :
        LET cur == stores["current"]
            arch == stores["archive"]
            r == main_archive(stores, "current", id)
            aid == IF DOMAIN arch = {} THEN 1 ELSE 1 + Largest(IdsIn(arch))
        IN IF cur[id].running
           THEN /\ r.res \in ErrorResults
                /\ r.files = stores
           ELSE /\ r.res = "Ok"
                /\ aid \notin DOMAIN arch
                /\ DOMAIN r.files["archive"] = DOMAIN arch \cup {aid}
                /\ r.files["archive"][aid] =
                       [id |-> aid,
                        name |-> cur[id].name,
                        total_duration_seconds |-> cur[id].total_duration_seconds,
                        running |-> FALSE,
                        last_run |-> cur[id].last_run]
                /\ \A k \in DOMAIN arch : r.files["archive"][k] = arch[k]
                /\ DOMAIN r.files["current"] = DOMAIN cur \ {id}
                /\ \A k \in DOMAIN cur \ {id} : r.files["current"][k] = cur[k]

\* task 1 was run, stopped and archived under archive id 1; task 2, running,
\* stays in the current store
C11_Witness ==
    /\ DOMAIN stores["archive"] = {1}
    /\ ~stores["archive"][1].running
    /\ IsSome(stores["archive"][1].last_run)
    /\ stores["archive"][1].total_duration_seconds = 60
    /\ DOMAIN stores["current"] = {2}
    /\ stores["current"][2].running

\* C12: every invocation whose arguments parse ends by writing the map it
\* holds in memory to the file of its category, also when the operation did
\* nothing or failed (unknown id, already running, not running, archive asked
\* while the category is archive).
C12_EveryInvocationSaves ==
    \A p \in Procs :
        procs[p].pc \in {"done", "returned"} =>
            /\ procs[p].wrote /= <<>>
            /\ procs[p].wrote[Len(procs[p].wrote)] = procs[p].tt

\* C13: clear acts on the first response that is Y or N, in either case, after
\* any number of invalid responses, each of which only brings the prompt
\* again: Y empties the store, N leaves it as it was, and both end the loop.
IsYes(line) == line \in {<<"y">>, <<"Y">>}
IsNo(line) == line \in {<<"n">>, <<"N">>}

C13_FirstValidResponseDecides ==
    \A p \in Procs :
        LET me == procs[p]
            decisive == {i \in 1..Len(me.answers) :
                           IsYes(me.answers[i]) \/ IsNo(me.answers[i])}
        IN (me.cmd.op = "clear" /\ decisive /= {}) =>
              LET i == CHOOSE k \in decisive : \A j \in decisive : k <= j
              IN /\ me.pc \in {"ran", "done"}
                 /\ Len(me.answers) = i
                 /\ IF IsYes(me.answers[i])
                    THEN me.res = "Cleared" /\ me.mem = EmptyStore
                    ELSE me.res = "Canceled" /\ me.mem = stores[me.tt]

\* C14: list selects exactly the tasks with running or show_all, prints them
\* in ascending order of id, reports as total the sum of the current durations
\* of the listed tasks only, and leaves the store as it was.
RECURSIVE SumOfCurrentDurations(_, _, _)
SumOfCurrentDurations(tasks, keys, n) ==
    IF keys = {} THEN 0
    ELSE LET k == CHOOSE x \in keys : TRUE
         IN Task_current_duration(tasks[k], n)
            + SumOfCurrentDurations(tasks, keys \ {k}, n)

C14_ListSelects ==
    \A tt \in Category, show_all \in BOOLEAN, n \in Times :
        LET tasks == stores[tt]
            out == list_tasks(tasks, show_all, n)
            listed == {k \in DOMAIN tasks : tasks[k].running \/ show_all}
        IN /\ out.res = "Ok"
           /\ Len(out.ids) = Cardinality(listed)
           /\ {out.ids[i] : i \in 1..Len(out.ids)} = listed
           /\ \A i, j \in 1..Len(out.ids) : i < j => out.ids[i] < out.ids[j]
           /\ out.total = SumOfCurrentDurations(tasks, listed, n)
           /\ Saved(tt, out) = stores

\* a stopped task that has a total next to a running one: listing the running
\* tasks leaves the stopped one out of the lines and of the total
C14_Witness ==
    /\ DOMAIN stores["current"] = {1, 2}
    /\ ~stores["current"][1].running
    /\ stores["current"][1].total_duration_seconds > 0
    /\ stores["current"][2].running
    /\ stores["current"][2].last_run = Some(0)

\* C15: current_duration changes no field of the task; on a stopped task it
\* returns the total, on a running one the total plus the whole seconds from
\* last_run to now, and the total alone when now is earlier than last_run.
C15_CurrentDurationReads ==
    (last.op = "Task::current_duration" /\ HasPre) =>
        /\ stores = last.pre
        /\ LET t == PostTask
               d == Task_current_duration(t, now)
           IN IF ~t.running THEN d = t.total_duration_seconds
              ELSE IF now < Unwrap(t.last_run) THEN d = t.total_duration_seconds
              ELSE d = t.total_duration_seconds
                       + WholeSeconds(now - Unwrap(t.last_run))

\* read on a running task that has a total, a minute after it was started
C15_Witness ==
    /\ last.op = "Task::current_duration"
    /\ HasPre
    /\ PostTask.running
    /\ PostTask.total_duration_seconds > 0
    /\ now >= Unwrap(PostTask.last_run) + 60 * TicksPerSec

\* C16: in every reachable store each key k maps to a task whose id is k, so
\* ids are unique within a store (not across the two stores), and no operation
\* on a stored task (start, stop, cancel, rename, add, sub, set) changes its
\* id or its key.
C16_KeyIsId ==
    \A c \in Category : \A k \in DOMAIN stores[c] :
        LET tasks == stores[c]
            Kept(out) == DOMAIN out.tasks = DOMAIN tasks /\ out.tasks[k].id = k
        IN /\ tasks[k].id = k
           /\ \A n \in Times : /\ Kept(start_task(tasks, k, n))
                                /\ Kept(stop_task(tasks, k, n))
           /\ \A name \in Names : Kept(rename_task(tasks, k, name))
           /\ \A tok \in StoreTokens : /\ Kept(add_time(tasks, k, tok))
                                        /\ Kept(subtract_time(tasks, k, tok))
                                        /\ Kept(set_time(tasks, k, tok))
           /\ Task_cancel(tasks[k]).task.id = k

\* both stores hold a task with id 1: the archived one came from the current
\* store, and the current one was renamed, given time and started since
C16_Witness ==
    /\ 1 \in DOMAIN stores["archive"]
    /\ 1 \in DOMAIN stores["current"]
    /\ stores["current"][1].name = "b"
    /\ stores["current"][1].total_duration_seconds = 60
    /\ stores["current"][1].running

\* C17: create inserts exactly one new task, under the allocated id, with
\* total 0, running equal to the start flag and last_run equal to now exactly
\* when the flag is set (absent otherwise), and leaves every task that was in
\* the store, and the other store, as it was.
C17_CreateInsertsOne ==
    \A tt \in Category, name \in Names, start \in BOOLEAN, n \in Times :
        LET tasks == stores[tt]
            out == create_task(tasks, name, start, n)
            post == Saved(tt, out)
            id == IF DOMAIN tasks = {} THEN 1 ELSE 1 + Largest(IdsIn(tasks))
        IN /\ out.res = "Ok"
           /\ id \notin DOMAIN tasks
           /\ DOMAIN post[tt] = DOMAIN tasks \cup {id}
           /\ post[tt][id] = [id |-> id,
                              name |-> name,
                              total_duration_seconds |-> 0,
                              running |-> start,
                              last_run |-> IF start THEN Some(n) ELSE None]
           /\ \A k \in DOMAIN tasks : post[tt][k] = tasks[k]
           /\ \A c \in Category \ {tt} : post[c] = stores[c]

\* task 2 was created running into a store whose task 1 has a total and is
\* stopped
C17_Witness ==
    /\ DOMAIN stores["archive"] = {1, 2}
    /\ stores["archive"][1].total_duration_seconds = 60
    /\ ~stores["archive"][1].running
    /\ stores["archive"][2].total_duration_seconds = 0
    /\ stores["archive"][2].running
    /\ stores["archive"][2].last_run = Some(0)
    /\ stores["archive"][2].name = "b"

\* C18: delete, start, stop, rename, add_time, subtract_time, set_time and
\* archive addressed to an id that is not a key of the store report not-found
\* and leave the store (for archive, the archive store too) as it was,
\* whatever the other arguments are; delete of an id that is a key removes
\* exactly that entry.
C18_NotFoundLeavesStore ==
    \A tt \in Category :
        LET tasks == stores[tt]
            NotFound(out) == out.res = "NotFound" /\ Saved(tt, out) = stores
        IN /\ \A id \in (1..(MaxId + 1)) \ DOMAIN tasks :
                 /\ NotFound(delete_task(tasks, id))
                 /\ \A n \in Times : /\ NotFound(start_task(tasks, id, n))
                                      /\ NotFound(stop_task(tasks, id, n))
                 /\ \A name \in Names : NotFound(rename_task(tasks, id, name))
                 /\ \A tok \in Tokens :
                       /\ NotFound(add_time(tasks, id, tok))
                       /\ NotFound(subtract_time(tasks, id, tok))
                       /\ NotFound(set_time(tasks, id, tok))
                 /\ tt = "current" =>
                       /\ main_archive(stores, tt, id).res = "NotFound"
                       /\ main_archive(stores, tt, id).files = stores
           /\ \A id \in DOMAIN tasks :
                 LET out == delete_task(tasks, id)
                     post == Saved(tt, out)
                 IN /\ out.res = "Ok"
                    /\ DOMAIN post[tt] = DOMAIN tasks \ {id}
                    /\ \A k \in DOMAIN tasks \ {id} : post[tt][k] = tasks[k]
                    /\ \A c \in Category \ {tt} : post[c] = stores[c]

\* task 1 of the archive store was deleted, task 2 stays; an invocation
\* addressed to id 1 now finds nothing there, while the current store has a
\* task 1
C18_Witness ==
    /\ DOMAIN stores["archive"] = {2}
    /\ DOMAIN stores["current"] = {1}

\* C19: for every token <H>h<M>m, <H>h or <M>m, H and M being non-negative
\* integers in decimal, both parsers return H*3600 + M*60, a missing component
\* counting as 0; so the token built from the hours and the minutes of a
\* multiple of 60 seconds parses to that number of seconds.
ParseOps == {"parse_time_to_seconds", "parse_time_string_to_seconds"}

IsNumber(s) == s /= <<>> /\ \A i \in 1..Len(s) : IsDigit(s[i])

RECURSIVE PlaceValues(_, _)
PlaceValues(s, i) ==
    IF i > Len(s) THEN 0
    ELSE DigitVal(s[i]) * 10 ^ (Len(s) - i) + PlaceValues(s, i + 1)

NumberOf(s) == PlaceValues(s, 1)

RECURSIVE Decimal(_)
Decimal(v) ==
    IF v < 10 THEN <<DigitChars[v + 1]>>
    ELSE Decimal(v \div 10) \o <<DigitChars[(v % 10) + 1]>>

\* the token built from the hours and the minutes of s seconds
TokenOfSeconds(s) ==
    Decimal(s \div 3600) \o <<"h">> \o Decimal((s % 3600) \div 60) \o <<"m">>

ParseOf(op, tok) ==
    IF op = "parse_time_to_seconds" THEN parse_time_to_seconds(tok)
    ELSE parse_time_string_to_seconds(tok)

C19_ParseValue ==
    last.op \in ParseOps =>
        LET t == last.tok
            L == Len(t)
            front == SubSeq(t, 1, L - 1)
        IN /\ (L >= 2 /\ t[L] = "h" /\ IsNumber(front)) =>
                 last.res = "ok" /\ last.val = NumberOf(front) * 3600
           /\ (L >= 2 /\ t[L] = "m" /\ IsNumber(front)) =>
                 last.res = "ok" /\ last.val = NumberOf(front) * 60
           /\ \A i \in 2..(L - 2) :
                 (/\ t[i] = "h" /\ t[L] = "m"
                  /\ IsNumber(SubSeq(t, 1, i - 1))
                  /\ IsNumber(SubSeq(t, i + 1, L - 1))) =>
                     /\ last.res = "ok"
                     /\ last.val = NumberOf(SubSeq(t, 1, i - 1)) * 3600
                                   + NumberOf(SubSeq(t, i + 1, L - 1)) * 60
           /\ (last.res = "ok" /\ last.val % 60 = 0) =>
                 ParseOf(last.op, TokenOfSeconds(last.val)) = ParseOk(last.val)

\* a token with both components was parsed: 1h2m is 3720 seconds
C19_Witness ==
    /\ last.op \in ParseOps
    /\ last.tok = <<"1", "h", "2", "m">>
    /\ last.res = "ok"
    /\ last.val = 3720

\* C20: when two invocations on the same category both load the file before
\* either saves, neither blocks or fails: a started invocation that has not
\* ended can always take its next step, whatever the other one is doing; and
\* once both have saved the file holds exactly the map of the one that saved
\* last, so what the first saver changed is lost.
StepOf(p) ==
    \/ \E n \in Times : Run(p, n)
    \/ RunArchive(p)
    \/ SaveArchive(p)
    \/ RunClear(p)
    \/ \E line \in Lines : ReadLine(p, line)
    \/ Save(p)

Overlapped(p, q) ==
    /\ p /= q
    /\ procs[p].tt = procs[q].tt
    /\ procs[p].pc /= "idle" /\ procs[q].pc /= "idle"
    /\ procs[p].loadedAt = 0 /\ procs[q].loadedAt = 0

C20_LastWriterWins ==
    \A p, q \in Procs :
        Overlapped(p, q) =>
            /\ procs[p].pc \in {"loaded", "archiving", "prompt", "ran"} =>
                  ENABLED StepOf(p)
            /\ (/\ procs[p].pc = "done" /\ procs[q].pc = "done"
                /\ procs[p].savedAt < procs[q].savedAt) =>
                  stores[procs[q].tt] = procs[q].mem

\* p created a task and saved first; q, which had loaded before that save,
\* renamed task 1 and saved last: the file has q's map and not the new task
C20_Witness ==
    /\ Overlapped("p", "q")
    /\ procs["p"].pc = "done" /\ procs["q"].pc = "done"
    /\ procs["p"].savedAt < procs["q"].savedAt
    /\ procs["p"].cmd.op = "create"
    /\ procs["q"].cmd.op = "rename" /\ procs["q"].res = "Ok"
    /\ 2 \in DOMAIN procs["p"].mem
    /\ 2 \notin DOMAIN stores[procs["q"].tt]

\* C21: a parser succeeds only on a token of one of the three shapes
\* <int>h<int>m, <int>h or <int>m; every other token over digits, h and m
\* (characters after the last marker, m before h, ...) is rejected.
OverDigitsHM(t) == \A i \in 1..Len(t) : IsDigit(t[i]) \/ t[i] \in {"h", "m"}

HasShape(t) ==
    LET L == Len(t)
    IN /\ L >= 2
       /\ \/ t[L] \in {"h", "m"} /\ IsNumber(SubSeq(t, 1, L - 1))
          \/ /\ t[L] = "m"
             /\ \E i \in 2..(L - 2) : /\ t[i] = "h"
                                       /\ IsNumber(SubSeq(t, 1, i - 1))
                                       /\ IsNumber(SubSeq(t, i + 1, L - 1))

C21_OnlyShapesParse ==
    (last.op \in ParseOps /\ OverDigitsHM(last.tok) /\ ~HasShape(last.tok)) =>
        last.res /= "ok"

\* C22: last_run is written only by start and by create with the start flag:
\* stop, cancel, rename, add_time, subtract_time and set_time leave it as it
\* was. So last_run is present exactly when the task is running or was
\* started before, and it holds the time of the latest start, also after stop
\* and cancel.
C22_LastRunIsLatestStart ==
    LET t == stores["current"][1]
    IN /\ t.last_run = acct.lastStart
       /\ IsSome(t.last_run) <=> (t.running \/ IsSome(acct.lastStart))
       /\ (HasPre /\ ~(last.op \in StartOps /\ last.res = "Ok")) =>
             PostTask.last_run = PreTask.last_run
       /\ (HasPre /\ last.op \in StartOps /\ last.res = "Ok") =>
             PostTask.last_run = Some(now)

\* a run that began at the later clock reading was cancelled at the earlier
\* one: the task is stopped and last_run still holds the start of that run
C22_Witness ==
    /\ HasPre /\ last.op \in CancelOps /\ last.res = "Ok"
    /\ ~PostTask.running
    /\ IsSome(PostTask.last_run)
    /\ Unwrap(PostTask.last_run) > now

\* C23: during an archive invocation the archive file is written with the
\* copy before the current file is written without the task, so in every
\* persisted state, a crash between the two writes included, the task is in
\* at least one of the two files.
SameTask(a, b) ==
    /\ a.name = b.name
    /\ a.total_duration_seconds = b.total_duration_seconds
    /\ a.last_run = b.last_run

C23_ArchiveNeverLoses ==
    LET me == procs["p"]
        before == last.pre
        inCurrent == /\ me.cmd.id \in DOMAIN stores["current"]
                     /\ stores["current"][me.cmd.id] = before["current"][me.cmd.id]
        inArchive == \E k \in DOMAIN stores["archive"] \ DOMAIN before["archive"] :
                        SameTask(stores["archive"][k], before["current"][me.cmd.id])
    IN (/\ me.pc /= "idle" /\ me.tt = "current"
        /\ me.cmd.id \in DOMAIN before["current"]) =>
           /\ inCurrent \/ inArchive
           /\ ~inCurrent => me.wrote = <<"archive", "current">>
           /\ me.res = "Ok" => me.wrote \in {<<"archive">>, <<"archive", "current">>}
           /\ \A c \in Category : \A k \in DOMAIN before[c] :
                 (c /= "current" \/ k /= me.cmd.id) =>
                     k \in DOMAIN stores[c] /\ stores[c][k] = before[c][k]

\* the invocation was killed between the two writes: the copy is in the
\* archive file and the task is still in the current file
C23_Witness ==
    /\ procs["p"].pc = "crashed"
    /\ procs["p"].wrote = <<"archive">>
    /\ procs["p"].cmd.id \in DOMAIN stores["current"]
    /\ \E k \in DOMAIN stores["archive"] \ DOMAIN last.pre["archive"] :
          SameTask(stores["archive"][k], stores["current"][procs["p"].cmd.id])

\* C24: add_time is allowed on a running task and changes neither running nor
\* last_run, and it commutes with stop: for a running task, a well-formed
\* token and one stop time, add_time then stop gives the same total as stop
\* then add_time.
C24_AddCommutesWithStop ==
    /\ (last.op \in AddOps /\ HasPre /\ last.tok \in GoodTokens /\ PreTask.running) =>
          /\ last.res = "Ok"
          /\ PostTask.running
          /\ PostTask.last_run = PreTask.last_run
          /\ PostTask.total_duration_seconds =
                PreTask.total_duration_seconds + TokenSeconds(last.tok)
    /\ LET tasks == stores["current"]
           t == tasks[1]
       IN t.running =>
             \A tok \in GoodTokens, n \in Times :
                /\ Task_stop(Task_add_time(t, tok).task, n).task.total_duration_seconds
                   = Task_add_time(Task_stop(t, n).task, tok).task.total_duration_seconds
                /\ stop_task(add_time(tasks, 1, tok).tasks, 1, n).tasks[1].total_duration_seconds
                   = add_time(stop_task(tasks, 1, n).tasks, 1, tok).tasks[1].total_duration_seconds
                /\ stop_task(add_time(tasks, 1, tok).tasks, 1, n).res = "Ok"
                /\ add_time(stop_task(tasks, 1, n).tasks, 1, tok).res = "Ok"

\* a minute was added to a task while it was running, and it runs on
C24_Witness ==
    /\ last.op \in AddOps /\ HasPre /\ last.tok \in GoodTokens
    /\ PreTask.running /\ PostTask.running
    /\ PostTask.total_duration_seconds > PreTask.total_duration_seconds

====
